---------------------------- MODULE Spec2Model ----------------------------
(***************************************************************************)
(* Model of the voicemail poll loop of src/main.py: the token cache        *)
(* (get_access_token), the remote store client (rc_get, rc_patch,          *)
(* rc_get_text), the paged listing (list_unread_voicemails), the           *)
(* transcription resolver (fetch_transcription_with_retry), the notifier   *)
(* (discord_post) and the loop of main, together with the provider's       *)
(* message store they talk to.                                             *)
(***************************************************************************)
EXTENDS Integers, Sequences, FiniteSets, TLC

(***************************************************************************)
(* Bounds of the model.                                                    *)
(***************************************************************************)
\* Number of voicemails the provider may ever hold.
NumVm == 3
\* Number of remote calls the environment may make fail over a run.
MaxFailures == 2
\* Number of responses that may lack their creationTime over a run.
MaxPartial == 1
\* The clock of a run stops here (seconds).
MaxNow == 7200
\* The largest totalPages a page response may report.
MaxTotalPages == 3
\* The per-voicemail notification counter saturates here.
MaxCount == 2
\* Length of the longest transcription text tried.
MaxLen == 2000

(***************************************************************************)
(* Program constants.                                                      *)
(***************************************************************************)
\* get_access_token: "now < (_token_exp - 60)".
Margin == 60
\* get_access_token: data.get("expires_in", 3600).
DefaultExpiresIn == 3600
\* fetch_transcription_with_retry(message_id, retries=6, ...).
Retries == 6

Min(a, b) == IF a < b THEN a ELSE b

Ids == 1 .. NumVm

\* _token = None
NoToken == 0
\* Access tokens the provider may hand out.
Tokens == {1, 2}
\* A fresh access token differs from the one it replaces.
FreshTokens(tok) == Tokens \ {tok}
\* expires_in values of a token response; 0 stands for a response without
\* the field.
ExpiresInValues == {0, 60}

\* (PER_PAGE, MAX_PAGES) pairs the process may be started with.
Configs == {<<1, 2>>, <<2, 2>>}
\* The same, for list_unread_voicemails called alone.
ListConfigs == {<<2, m>> : m \in 1 .. MaxTotalPages}
\* Seconds by which the clock may advance between two calls.
TickSteps == {0, Margin, DefaultExpiresIn - 2 * Margin}

VARIABLES
    \* configuration, fixed at start-up
    PER_PAGE, MAX_PAGES, date_from,
    \* the provider's message store
    vm, descending,
    \* the environment
    now, failBudget, partialBudget,
    \* the token cache
    token, token_exp,
    \* the loop of main
    pc, page, records, idx, full_ct, tries, uri, transcription,
    \* history
    cycLog, failed, ev, attLog, notified, readCount, prev,
    \* history of get_access_token and of list_unread_voicemails called alone
    tokEv, pageLog

config == <<PER_PAGE, MAX_PAGES, date_from, descending>>
cache == <<token, token_exp>>
loop == <<pc, page, records, idx, full_ct, tries, uri, transcription>>
probe == <<tokEv, pageLog>>
hist == <<cycLog, failed, ev, attLog, notified, readCount, probe, prev>>
env == <<now, failBudget, partialBudget>>
vars == <<config, vm, env, cache, loop, hist>>

(***************************************************************************)
(* The provider.                                                           *)
(***************************************************************************)
\* creationTime of voicemail i (an ISO-8601 instant, here its rank); two
\* voicemails may carry the same instant.
CreationTime(i) == (i + 2) \div 2

\* The instants date_from may take: the oldest voicemail is inside or
\* outside the lookback window.
DateFromValues == {CreationTime(1), CreationTime(1) + 1}

\* messageType=VoiceMail, readStatus=Unread, dateFrom=<iso>
Matching(from) == {i \in Ids : vm[i] = "Unread" /\ CreationTime(i) >= from}

Precedes(a, b) ==
    IF descending
    THEN CreationTime(a) > CreationTime(b)
         \/ (CreationTime(a) = CreationTime(b) /\ a > b)
    ELSE CreationTime(a) < CreationTime(b)
         \/ (CreationTime(a) = CreationTime(b) /\ a < b)

\* The records of S in the provider's order.
Rank(i, S) == Cardinality({j \in S : Precedes(j, i)}) + 1
Ordered(S) == [k \in 1 .. Cardinality(S) |-> CHOOSE i \in S : Rank(i, S) = k]

\* paging.totalPages of a listing of n records
TotalPages(n, perPage) == (n + perPage - 1) \div perPage

\* The ids on page p of the listing.
PageIds(from, p, perPage) ==
    LET all == Ordered(Matching(from))
    IN  SubSeq(all, (p - 1) * perPage + 1, Min(p * perPage, Len(all)))

\* The sets of entries of one response that may lack their creationTime.
PartialSets(S) == {T \in SUBSET S : Cardinality(T) <= partialBudget}

\* A list entry: creationTime 0 stands for an entry without the field.
Entry(i, complete) ==
    [id |-> i, creationTime |-> IF complete THEN CreationTime(i) ELSE 0]

(***************************************************************************)
(* get_access_token                                                        *)
(***************************************************************************)
\* get_access_token: "if _token and now < (_token_exp - 60)".
CacheValidNoMargin(tok, exp, t) == tok # NoToken /\ t < exp

CacheValid(tok, exp, t) == tok # NoToken /\ t < exp - Margin

ExpiresIn(e) == IF e = 0 THEN DefaultExpiresIn ELSE e

\* Mutant: a failed exchange clears the cache.
TokenOutcomesClearOnFail(tok, exp, t) ==
    IF CacheValid(tok, exp, t)
    THEN {[ok |-> TRUE, tok |-> tok, exp |-> exp, src |-> "cache"]}
    ELSE {[ok |-> TRUE, tok |-> k, exp |-> t + ExpiresIn(e), src |-> "exchange"]
            : k \in {CHOOSE f \in FreshTokens(tok) : TRUE}, e \in ExpiresInValues}
         \cup (IF failBudget > 0
               THEN {[ok |-> FALSE, tok |-> NoToken, exp |-> 0, src |-> "fail"]}
               ELSE {})

\* The outcomes of one call of get_access_token at time t: the cached token,
\* or a credential exchange that succeeds or (while the failure budget
\* lasts) fails.
TokenOutcomes(tok, exp, t) ==
    IF CacheValid(tok, exp, t)
    THEN {[ok |-> TRUE, tok |-> tok, exp |-> exp, src |-> "cache"]}
    ELSE {[ok |-> TRUE, tok |-> k, exp |-> t + ExpiresIn(e), src |-> "exchange"]
            : k \in {CHOOSE f \in FreshTokens(tok) : TRUE}, e \in ExpiresInValues}
         \cup (IF failBudget > 0
               THEN {[ok |-> FALSE, tok |-> tok, exp |-> exp, src |-> "fail"]}
               ELSE {})


(***************************************************************************)
(* Values                                                                  *)
(***************************************************************************)
\* Optional[str]: None, or a text (a sequence of characters).
NoneT == [some |-> FALSE, text |-> <<>>]
Some(t) == [some |-> TRUE, text |-> t]

\* Bodies the provider may serve under a transcription URI.
RawTexts == {<<>>, <<" ">>, <<"a">>, <<" ", "a">>, <<"a", " ">>}

RECURSIVE LStrip(_)
LStrip(s) == IF s # <<>> /\ Head(s) = " " THEN LStrip(Tail(s)) ELSE s
RECURSIVE RStrip(_)
RStrip(s) ==
    IF s # <<>> /\ s[Len(s)] = " " THEN RStrip(SubSeq(s, 1, Len(s) - 1)) ELSE s
\* str.strip()
Strip(s) == RStrip(LStrip(s))

\* Attachments of a message: a type tag and a uri ("" for none).
Attachments ==
    [type : {"AudioRecording", "AudioTranscription"}, uri : {"", "u"}]
AttachmentLists ==
    {<<>>} \cup {<<a>> : a \in Attachments}
           \cup {<<a, b>> : a \in Attachments, b \in Attachments}

\* fetch_transcription_with_retry, the inner for: the positions of the
\* attachments tagged AudioTranscription with a non-empty uri.
TranscriptionAt(atts) ==
    {k \in 1 .. Len(atts) : atts[k].type = "AudioTranscription" /\ atts[k].uri # ""}
FirstOf(S) == CHOOSE k \in S : \A j \in S : k <= j

\* discord_post: the value of the Transcription field.
Placeholder == <<"(", ")">>
FieldLimit == 1024
\* Mutant: the slice keeps one character too many.
TakeOneMore(s, n) == SubSeq(s, 1, Min(n + 1, Len(s)))
Take(s, n) == SubSeq(s, 1, Min(n, Len(s)))
\* Mutant: no placeholder stands in for a missing transcription.
TranscriptionFieldNoPlaceholder(t) == Take(Strip(t.text), FieldLimit)

TranscriptionField(t) ==
    Take(Strip(IF t.some /\ t.text # <<>> THEN t.text ELSE Placeholder), FieldLimit)

\* int(paging.get("totalPages") or 1); 0 stands for a missing or zero field.
TotalPagesOr1(tp) == IF tp = 0 THEN 1 ELSE tp

\* list_unread_voicemails leaves its loop after this page: "if page >=
\* total_pages: break", or page + 1 fails "while page <= MAX_PAGES".
LastPageNoCap(p, total_pages, maxPages) == p >= total_pages

LastPage(p, total_pages, maxPages) == p >= total_pages \/ p + 1 > maxPages

\* records.sort(key=lambda x: x.get("creationTime", "")): a stable sort, an
\* entry without the field sorting first.
\* The place of entry k of s after the sort: behind the entries with a
\* smaller key and the earlier entries with the same key.
SortedPlace(s, k) ==
    Cardinality({j \in 1 .. Len(s) :
                    \/ s[j].creationTime < s[k].creationTime
                    \/ (s[j].creationTime = s[k].creationTime /\ j < k)}) + 1
SortByCreationTime(s) ==
    [p \in 1 .. Len(s) |-> s[CHOOSE k \in 1 .. Len(s) : SortedPlace(s, k) = p]]

\* creation_time = full.get("creationTime") or msg.get("creationTime") or ""
CreationTimeOf(fullCt, msg) == IF fullCt # 0 THEN fullCt ELSE msg.creationTime

Bump(n) == Min(n + 1, MaxCount)

(***************************************************************************)
(* History kept for the properties: what the last step did.                *)
(***************************************************************************)
NoEv == [call |-> "none", ok |-> TRUE, text |-> <<>>]
Ev(call, ok) == [call |-> call, ok |-> ok, text |-> <<>>]
\* What the last call of get_access_token did.
NoTokEv == [src |-> "none", tok |-> NoToken]
\* What the cycle before this one left behind, when notify failed for the
\* second of its three records: the record marked read and the two left.
NoPrev == [done |-> {}, left |-> {}]
LogEntry(op, id, ok, ct) == [op |-> op, id |-> id, ok |-> ok, ct |-> ct]

(***************************************************************************)
(* Initial state: main has computed date_from and enters the first cycle.  *)
(***************************************************************************)
\* The state after start-up, the environment having the budgets given.
InitWith(configs, failures, partials) ==
    /\ \E c \in configs : PER_PAGE = c[1] /\ MAX_PAGES = c[2]
    /\ date_from \in DateFromValues
    /\ descending \in BOOLEAN
    /\ vm \in [Ids -> {"none", "Unread"}]
    /\ now = 0
    /\ failBudget = failures
    /\ partialBudget = partials
    /\ token = NoToken
    /\ token_exp = 0
    /\ pc = "list"
    /\ page = 1
    /\ records = <<>>
    /\ idx = 0
    /\ full_ct = 0
    /\ tries = 0
    /\ uri = ""
    /\ transcription = NoneT
    /\ cycLog = <<>>
    /\ failed = "none"
    /\ ev = NoEv
    /\ attLog = <<>>
    /\ notified = [i \in Ids |-> 0]
    /\ readCount = [i \in Ids |-> 0]
    /\ tokEv = NoTokEv
    /\ pageLog = <<>>
    /\ prev = NoPrev

Init == InitWith(Configs, MaxFailures, MaxPartial)

(***************************************************************************)
(* main: the try/except around the cycle, and the for loop's head.         *)
(***************************************************************************)
\* Mutant: the failure is caught inside the for loop, which goes on with the
\* next record.
AbortContinue(kind) ==
    /\ failed' = kind
    /\ UNCHANGED page
    /\ records' = records
    /\ idx' = idx + 1
    /\ pc' = IF idx + 1 <= Len(records) THEN "detail" ELSE "sleep"
    /\ full_ct' = 0 /\ tries' = 0 /\ uri' = "" /\ transcription' = NoneT
    /\ attLog' = <<>>

\* Mutant: the exception is not caught and ends the process.
AbortCrash(kind) ==
    /\ failed' = kind
    /\ pc' = "crashed"
    /\ UNCHANGED <<page, records, idx>>
    /\ full_ct' = 0 /\ tries' = 0 /\ uri' = "" /\ transcription' = NoneT
    /\ attLog' = <<>>

\* except Exception as e: print(...) ; the cycle's work ends here.
Abort(kind) ==
    /\ failed' = kind
    /\ pc' = "sleep"
    /\ UNCHANGED <<page, records, idx>>
    /\ full_ct' = 0 /\ tries' = 0 /\ uri' = "" /\ transcription' = NoneT
    /\ attLog' = <<>>

\* Mutant: the loop remembers what it has notified and skips those records.
RECURSIVE NextUnseen(_, _)
NextUnseen(recs, i) ==
    IF i <= Len(recs) /\ notified[recs[i].id] > 0 /\ vm[recs[i].id] = "Unread"
    THEN NextUnseen(recs, i + 1) ELSE i
AdvanceSkipSeen(recs, i) ==
    /\ records' = recs
    /\ idx' = NextUnseen(recs, i)
    /\ pc' = IF NextUnseen(recs, i) <= Len(recs) THEN "detail" ELSE "sleep"
    /\ full_ct' = 0 /\ tries' = 0 /\ uri' = "" /\ transcription' = NoneT
    /\ attLog' = <<>>

\* for msg in records: the loop moves to entry i of recs, or ends.
Advance(recs, i) ==
    /\ records' = recs
    /\ idx' = i
    /\ pc' = IF i <= Len(recs) THEN "detail" ELSE "sleep"
    /\ full_ct' = 0 /\ tries' = 0 /\ uri' = "" /\ transcription' = NoneT
    /\ attLog' = <<>>

\* A remote call that failed: in the token exchange (o.ok false) or in the
\* request itself.
RcFail(call, o) ==
    /\ failBudget > 0
    /\ failBudget' = failBudget - 1
    /\ token' = o.tok /\ token_exp' = o.exp
    /\ ev' = Ev(call, FALSE)
    /\ Abort(IF o.ok THEN call ELSE "token")

\* A remote call that succeeded, with the token o.
RcOk(call, o) ==
    /\ o.ok
    /\ token' = o.tok /\ token_exp' = o.exp
    /\ ev' = Ev(call, TRUE)
    /\ UNCHANGED failBudget

msg == records[idx]

(***************************************************************************)
(* list_unread_voicemails: one pass of the while loop, and on its exit the *)
(* sort of main and the start of the for loop.                             *)
(***************************************************************************)
ListOk ==
    /\ pc = "list"
    /\ \E o \in TokenOutcomes(token, token_exp, now) :
         /\ RcOk("list", o)
         /\ LET ids == PageIds(date_from, page, PER_PAGE)
                total_pages ==
                    TotalPagesOr1(TotalPages(Cardinality(Matching(date_from)), PER_PAGE))
            IN  \E inc \in PartialSets({ids[k] : k \in 1 .. Len(ids)}) :
                  LET all_records ==
                          records \o [k \in 1 .. Len(ids) |-> Entry(ids[k], ids[k] \notin inc)]
                  IN  /\ partialBudget' = partialBudget - Cardinality(inc)
                      /\ IF LastPage(page, total_pages, MAX_PAGES)
                         THEN /\ Advance(SortByCreationTime(all_records), 1)
                              /\ page' = page
                         ELSE /\ page' = page + 1
                              /\ records' = all_records
                              /\ UNCHANGED <<pc, idx, full_ct, tries, uri, transcription, attLog>>
    /\ UNCHANGED <<config, vm, now, cycLog, failed, notified, readCount, probe, prev>>

ListFail ==
    /\ pc = "list"
    /\ \E o \in TokenOutcomes(token, token_exp, now) : RcFail("list", o)
    /\ UNCHANGED <<config, vm, now, partialBudget, cycLog, notified, readCount, probe, prev>>

(***************************************************************************)
(* main, line 204: full = fetch_message(msg_id)                            *)
(***************************************************************************)
DetailOk ==
    /\ pc = "detail"
    /\ \E o \in TokenOutcomes(token, token_exp, now) : RcOk("getMessage", o)
    /\ \/ full_ct' = CreationTime(msg.id) /\ UNCHANGED partialBudget
       \/ /\ partialBudget > 0
          /\ full_ct' = 0 /\ partialBudget' = partialBudget - 1
    /\ pc' = "resolve"
    /\ tries' = 0
    /\ attLog' = <<>>
    /\ UNCHANGED <<config, vm, now, page, records, idx, uri, transcription,
                   cycLog, failed, notified, readCount, probe, prev>>

DetailFail ==
    /\ pc = "detail"
    /\ \E o \in TokenOutcomes(token, token_exp, now) : RcFail("getMessage", o)
    /\ UNCHANGED <<config, vm, now, partialBudget, cycLog, notified, readCount, probe, prev>>

(***************************************************************************)
(* fetch_transcription_with_retry                                          *)
(***************************************************************************)
\* msg = fetch_message(message_id) and the scan of its attachments
ResolveOk ==
    /\ pc = "resolve"
    /\ \E o \in TokenOutcomes(token, token_exp, now) : RcOk("getMessage", o)
    /\ \E atts \in AttachmentLists :
         LET hit == TranscriptionAt(atts)
         IN  /\ attLog' = Append(attLog, hit # {})
             /\ IF hit # {}
                THEN pc' = "rawtext" /\ uri' = atts[FirstOf(hit)].uri
                ELSE pc' = "rsleep" /\ uri' = uri
    /\ tries' = tries + 1
    /\ UNCHANGED <<config, vm, now, partialBudget, page, records, idx, full_ct, transcription,
                   cycLog, failed, notified, readCount, probe, prev>>

\* Mutant: a failing attempt is caught and counts as one without
\* transcription.
ResolveFailAsAbsent ==
    /\ pc = "resolve"
    /\ failBudget > 0
    /\ failBudget' = failBudget - 1
    /\ \E o \in TokenOutcomes(token, token_exp, now) :
         token' = o.tok /\ token_exp' = o.exp
    /\ ev' = Ev("getMessage", FALSE)
    /\ attLog' = Append(attLog, FALSE)
    /\ tries' = tries + 1
    /\ pc' = "rsleep"
    /\ UNCHANGED <<config, vm, now, partialBudget, page, records, idx, full_ct, uri,
                   transcription, cycLog, failed, notified, readCount, probe, prev>>

ResolveFail ==
    /\ pc = "resolve"
    /\ \E o \in TokenOutcomes(token, token_exp, now) : RcFail("getMessage", o)
    /\ UNCHANGED <<config, vm, now, partialBudget, cycLog, notified, readCount, probe, prev>>

\* Mutant: the budget is one attempt too long.
ResolveSleepOffByOne ==
    /\ pc = "rsleep"
    /\ IF tries <= Retries
       THEN pc' = "resolve" /\ UNCHANGED transcription
       ELSE pc' = "notify" /\ transcription' = NoneT
    /\ ev' = NoEv
    /\ UNCHANGED <<config, vm, env, cache, page, records, idx, full_ct,
                   tries, uri, cycLog, failed, attLog, notified, readCount, probe, prev>>

\* time.sleep(sleep_seconds), then the next pass of the for, or return None
ResolveSleep ==
    /\ pc = "rsleep"
    /\ IF tries < Retries
       THEN pc' = "resolve" /\ UNCHANGED transcription
       ELSE pc' = "notify" /\ transcription' = NoneT
    /\ ev' = NoEv
    /\ UNCHANGED <<config, vm, env, cache, page, records, idx, full_ct,
                   tries, uri, cycLog, failed, attLog, notified, readCount, probe, prev>>

\* return rc_get_text(att["uri"]).strip()
RawTextOk ==
    /\ pc = "rawtext"
    /\ \E o \in TokenOutcomes(token, token_exp, now) : RcOk("fetchRaw", o)
    /\ \E text \in RawTexts : transcription' = Some(Strip(text))
    /\ pc' = "notify"
    /\ UNCHANGED <<config, vm, now, partialBudget, page, records, idx, full_ct, tries, uri,
                   cycLog, failed, attLog, notified, readCount, probe, prev>>

RawTextFail ==
    /\ pc = "rawtext"
    /\ \E o \in TokenOutcomes(token, token_exp, now) : RcFail("fetchRaw", o)
    /\ UNCHANGED <<config, vm, now, partialBudget, cycLog, notified, readCount, probe, prev>>

(***************************************************************************)
(* discord_post                                                            *)
(***************************************************************************)
NotifyOk ==
    /\ pc = "notify"
    /\ ev' = [Ev("notify", TRUE) EXCEPT !.text = TranscriptionField(transcription)]
    /\ cycLog' = Append(cycLog, LogEntry("notify", msg.id, TRUE, CreationTimeOf(full_ct, msg)))
    /\ notified' = [notified EXCEPT ![msg.id] = Bump(@)]
    /\ pc' = "mark"
    /\ UNCHANGED <<config, vm, env, cache, page, records, idx, full_ct,
                   tries, uri, transcription, failed, attLog, readCount, probe, prev>>

\* Mutant: the response's status is not checked (no raise_for_status), so
\* the loop goes on to mark_as_read.
NotifyFailSwallowed ==
    /\ pc = "notify"
    /\ failBudget > 0
    /\ failBudget' = failBudget - 1
    /\ ev' = [Ev("notify", FALSE) EXCEPT !.text = TranscriptionField(transcription)]
    /\ cycLog' = Append(cycLog, LogEntry("notify", msg.id, FALSE, CreationTimeOf(full_ct, msg)))
    /\ pc' = "mark"
    /\ UNCHANGED <<config, vm, now, partialBudget, cache, page, records, idx, full_ct,
                   tries, uri, transcription, failed, attLog, notified, readCount,
                   probe, prev>>

\* Mutant: the record is marked read although notify failed.
NotifyFailMarksRead ==
    /\ pc = "notify"
    /\ failBudget > 0
    /\ failBudget' = failBudget - 1
    /\ ev' = [Ev("notify", FALSE) EXCEPT !.text = TranscriptionField(transcription)]
    /\ cycLog' = Append(cycLog, LogEntry("notify", msg.id, FALSE, CreationTimeOf(full_ct, msg)))
    /\ Abort("notify")
    /\ vm' = [vm EXCEPT ![msg.id] = "Read"]
    /\ UNCHANGED <<config, now, partialBudget, cache, notified, readCount, probe, prev>>

NotifyFail ==
    /\ pc = "notify"
    /\ failBudget > 0
    /\ failBudget' = failBudget - 1
    /\ ev' = [Ev("notify", FALSE) EXCEPT !.text = TranscriptionField(transcription)]
    /\ cycLog' = Append(cycLog, LogEntry("notify", msg.id, FALSE, CreationTimeOf(full_ct, msg)))
    /\ Abort("notify")
    /\ UNCHANGED <<config, vm, now, partialBudget, cache, notified, readCount, probe, prev>>

(***************************************************************************)
(* mark_as_read                                                            *)
(***************************************************************************)
\* Mutant: the PATCH is accepted but the store keeps the record Unread.
MarkOkNoEffect ==
    /\ pc = "mark"
    /\ \E o \in TokenOutcomes(token, token_exp, now) : RcOk("markRead", o)
    /\ cycLog' = Append(cycLog, LogEntry("markRead", msg.id, TRUE, 0))
    /\ Advance(records, idx + 1)
    /\ UNCHANGED <<config, vm, now, partialBudget, page, failed, notified, readCount,
                   probe, prev>>

MarkOk ==
    /\ pc = "mark"
    /\ \E o \in TokenOutcomes(token, token_exp, now) : RcOk("markRead", o)
    /\ vm' = [vm EXCEPT ![msg.id] = "Read"]
    /\ readCount' = [readCount EXCEPT ![msg.id] = IF vm[msg.id] = "Unread" THEN Bump(@) ELSE @]
    /\ cycLog' = Append(cycLog, LogEntry("markRead", msg.id, TRUE, 0))
    /\ Advance(records, idx + 1)
    /\ UNCHANGED <<config, now, partialBudget, page, failed, notified, probe, prev>>

\* Mutant: the failure of mark_as_read is swallowed and the for loop goes on.
MarkFailSwallowed ==
    /\ pc = "mark"
    /\ failBudget > 0
    /\ failBudget' = failBudget - 1
    /\ \E o \in TokenOutcomes(token, token_exp, now) :
         token' = o.tok /\ token_exp' = o.exp
    /\ ev' = Ev("markRead", FALSE)
    /\ cycLog' = Append(cycLog, LogEntry("markRead", msg.id, FALSE, 0))
    /\ Advance(records, idx + 1)
    /\ UNCHANGED <<config, vm, now, partialBudget, page, failed, notified, readCount,
                   probe, prev>>

MarkFail ==
    /\ pc = "mark"
    /\ \E o \in TokenOutcomes(token, token_exp, now) : RcFail("markRead", o)
    /\ cycLog' = Append(cycLog, LogEntry("markRead", msg.id, FALSE, 0))
    /\ UNCHANGED <<config, vm, now, partialBudget, notified, readCount, probe, prev>>

(***************************************************************************)
(* main: time.sleep(POLL_SECONDS) and the next pass of while True          *)
(***************************************************************************)
\* Mutant: the lookback window is computed anew for each cycle.
SleepNewWindow ==
    /\ pc = "sleep"
    /\ pc' = "list"
    /\ page' = 1
    /\ records' = <<>>
    /\ idx' = 0
    /\ cycLog' = <<>>
    /\ failed' = "none"
    /\ ev' = NoEv
    /\ prev' = NoPrev
    /\ date_from' = CreationTime(1) + 1
    /\ UNCHANGED <<PER_PAGE, MAX_PAGES, descending, vm, env, cache, full_ct, tries, uri,
                   transcription, attLog, notified, readCount, probe>>

Sleep ==
    /\ pc = "sleep"
    /\ pc' = "list"
    /\ page' = 1
    /\ records' = <<>>
    /\ idx' = 0
    /\ cycLog' = <<>>
    /\ failed' = "none"
    /\ ev' = NoEv
    /\ prev' = IF failed = "notify" /\ Len(records) = 3 /\ idx = 2
                  /\ Cardinality({records[k].id : k \in 1 .. 3}) = 3
               THEN [done |-> {records[1].id}, left |-> {records[2].id, records[3].id}]
               ELSE NoPrev
    /\ UNCHANGED <<config, vm, env, cache, full_ct, tries, uri,
                   transcription, attLog, notified, readCount, probe>>

(***************************************************************************)
(* The environment: a caller leaves a voicemail; time passes.              *)
(***************************************************************************)
Arrive(i) ==
    /\ pc = "list"
    /\ vm[i] = "none"
    /\ CreationTime(i) >= date_from
    /\ \A j \in Ids : vm[j] # "none" => CreationTime(j) <= CreationTime(i)
    /\ vm' = [vm EXCEPT ![i] = "Unread"]
    /\ ev' = NoEv
    /\ UNCHANGED <<config, env, cache, loop, cycLog, failed, attLog,
                   notified, readCount, probe, prev>>

Step ==
    \/ ListOk \/ ListFail
    \/ DetailOk \/ DetailFail
    \/ ResolveOk \/ ResolveFail \/ ResolveSleep
    \/ RawTextOk \/ RawTextFail
    \/ NotifyOk \/ NotifyFail
    \/ MarkOk \/ MarkFail
    \/ Sleep

Next == Step \/ (\E i \in Ids : Arrive(i))

Spec == Init /\ [][Next]_vars


(***************************************************************************)
(* Properties                                                              *)
(***************************************************************************)
Positions(op, i) == {k \in 1 .. Len(cycLog) : cycLog[k].op = op /\ cycLog[k].id = i}
ListedIds == {records[k].id : k \in 1 .. Len(records)}
NoDuplicates == \A j, k \in 1 .. Len(records) : records[j].id = records[k].id => j = k

C2_ExactlyOnce ==
    failBudget = MaxFailures =>
        \A i \in Ids :
            /\ notified[i] <= 1
            /\ readCount[i] <= 1
            /\ vm[i] = "Read" => notified[i] = 1

\* C4: the notify calls of a cycle carry non-decreasing creation times.
C4_NotifyOrder ==
    \A j, k \in 1 .. Len(cycLog) :
        (j < k /\ cycLog[j].op = "notify" /\ cycLog[k].op = "notify")
            => cycLog[j].ct <= cycLog[k].ct

\* C5: resolve makes at most Retries getMessage calls; it goes on to fetch
\* the text exactly when the response just read is the first to carry a
\* transcription attachment with a uri, and returns that text, trimmed,
\* after that many calls; it returns None after exactly Retries calls none of
\* which carried one.
C5_Resolve ==
    /\ pc \in {"resolve", "rsleep", "rawtext", "notify"} =>
          /\ tries = Len(attLog)
          /\ tries <= Retries
          /\ \A k \in 1 .. Len(attLog) : attLog[k] => k = Len(attLog)
    /\ pc = "resolve" => tries < Retries
    /\ pc = "rsleep" => tries >= 1 /\ ~attLog[tries]
    /\ pc = "rawtext" => tries >= 1 /\ attLog[tries] /\ uri # ""
    /\ pc = "notify" =>
          IF transcription.some
          THEN /\ tries >= 1
               /\ attLog[tries]
               /\ Strip(transcription.text) = transcription.text
          ELSE /\ tries = Retries
               /\ \A k \in 1 .. Retries : ~attLog[k]

\* resolve returned the text found on the last attempt of its budget.
C5_Witness ==
    /\ pc = "notify"
    /\ transcription.some
    /\ transcription.text # <<>>
    /\ tries = Retries


\* C6: when notify fails for the second of three records of a cycle, the
\* cycle ends with the first record Read and the other two Unread, nothing
\* having been sent or marked for the third; the next cycle does not list
\* the first, and lists exactly the other two when they are all that is
\* unread.
C6_ScenarioD ==
    /\ (pc = "sleep" /\ failed = "notify" /\ Len(records) = 3 /\ idx = 2 /\ NoDuplicates) =>
          /\ vm[records[1].id] = "Read"
          /\ vm[records[2].id] = "Unread"
          /\ vm[records[3].id] = "Unread"
          /\ Positions("notify", records[3].id) = {}
          /\ Positions("markRead", records[3].id) = {}
          /\ Positions("markRead", records[2].id) = {}
    /\ prev # NoPrev =>
          /\ ListedIds \cap prev.done = {}
          /\ \A k \in 1 .. Len(cycLog) : cycLog[k].id \notin prev.done
          /\ (pc \notin {"list", "sleep"} /\ Matching(date_from) \cup ListedIds = prev.left) =>
                /\ ListedIds = prev.left
                /\ Len(records) = 2
          /\ (pc = "sleep" /\ failed = "none" /\ ListedIds = prev.left) =>
                \A i \in prev.left : Positions("notify", i) # {} /\ vm[i] = "Read"

\* The cycle after such a failure has listed the two records left and
\* processed them both.
C6_Witness ==
    /\ prev # NoPrev
    /\ pc = "sleep"
    /\ failed = "none"
    /\ ListedIds = prev.left
    /\ Len(cycLog) = 4

\* C7: a remote call that fails ends the cycle's work: the step that fails
\* leaves the loop at its sleep with the store and the notifications as they
\* were, no remote call is made from there until the next cycle starts, and
\* a record that is Read stays Read.
C7_AbortCycle ==
    [][ /\ (ev'.call # "none" /\ ~ev'.ok) =>
              /\ failed' # "none"
              /\ pc' = "sleep"
              /\ vm' = vm
              /\ notified' = notified
        /\ failed # "none" =>
              /\ pc = "sleep"
              /\ ev'.call = "none"
              /\ notified' = notified
              /\ \A i \in Ids : vm'[i] = "Read" <=> vm[i] = "Read"
        /\ \A i \in Ids : vm[i] = "Read" => vm'[i] = "Read"
      ]_vars

\* getMessage failed for the second of three records, the first being Read.
C7_Witness ==
    /\ pc = "sleep"
    /\ failed = "getMessage"
    /\ Len(records) = 3
    /\ idx = 2
    /\ vm[records[1].id] = "Read"

InitFair ==
    /\ InitWith(Configs, 1, 0)
    /\ vm = [i \in Ids |-> "none"]
    /\ date_from = CreationTime(1)

FairSpec == InitFair /\ [][Next]_vars /\ WF_vars(Step)

\* C8: the loop has no terminal state: from anywhere in a cycle it reaches
\* the sleep between cycles, whether the cycle completes or fails, and from
\* that sleep it starts another cycle.
C8_NoTerminalState ==
    /\ (pc # "sleep") ~> (pc = "sleep")
    /\ (pc = "sleep") ~> (pc = "list" /\ page = 1 /\ cycLog = <<>>)
    /\ []<>(pc = "list" /\ page = 1 /\ cycLog = <<>>)

\* A cycle that failed in the token exchange has reached the sleep.
C8_Witness ==
    /\ pc = "sleep"
    /\ failed = "token"
    /\ failBudget = 0

(***************************************************************************)
(* get_access_token under sequential use, time passing between the calls.  *)
(***************************************************************************)
\* One call of get_access_token.
TokenCall ==
    /\ tokEv = NoTokEv
    /\ \E o \in TokenOutcomes(token, token_exp, now) :
         /\ token' = o.tok
         /\ token_exp' = o.exp
         /\ tokEv' = [src |-> o.src, tok |-> o.tok]
         /\ failBudget' = IF o.ok THEN failBudget ELSE failBudget - 1
    /\ UNCHANGED <<config, vm, now, partialBudget, loop, cycLog, failed, ev, attLog,
                   notified, readCount, pageLog, prev>>

\* int(time.time()) has advanced by d seconds at the next call.
Tick(d) ==
    /\ tokEv # NoTokEv
    /\ now + d <= MaxNow
    /\ now' = now + d
    /\ tokEv' = NoTokEv
    /\ UNCHANGED <<config, vm, failBudget, partialBudget, cache, loop, cycLog, failed,
                   ev, attLog, notified, readCount, pageLog, prev>>

NextTok == TokenCall \/ (\E d \in TickSteps : Tick(d))

\* A process that has not yet asked for a token.
InitTok ==
    /\ InitWith({<<2, 2>>}, MaxFailures, 0)
    /\ vm = [i \in Ids |-> "none"]
    /\ date_from = CreationTime(1)
    /\ descending

TokenSpec == InitTok /\ [][NextTok]_vars

\* C10: a call of get_access_token returns the cached token, leaving the
\* cache alone, whenever a token is cached and now < expiry - 60; otherwise
\* it performs a credential exchange, which caches the new token with its
\* expiry or fails leaving the cache alone. Nothing but an exchange changes
\* the cache, so the calls of one expiry-minus-margin window return the
\* token of the one exchange that opened it.
C10_TokenCache ==
    [][/\ (tokEv = NoTokEv /\ tokEv' # NoTokEv) =>
            IF token # 0 /\ now < token_exp - 60
            THEN /\ tokEv'.src = "cache"
                 /\ tokEv'.tok = token
                 /\ token' = token /\ token_exp' = token_exp
            ELSE \/ /\ tokEv'.src = "exchange"
                    /\ token' # 0 /\ token' # token
                    /\ tokEv'.tok = token'
                    /\ token_exp' \in {now + 3600, now + 60}
                 \/ /\ tokEv'.src = "fail"
                    /\ token' = token /\ token_exp' = token_exp
       /\ (tokEv' = NoTokEv \/ tokEv'.src # "exchange") =>
            (token' = token /\ token_exp' = token_exp)
      ]_vars

\* The cached token is served at the last instant of its window.
C10_Witness ==
    /\ tokEv.src = "cache"
    /\ now > 0
    /\ now + 60 = token_exp - 60

(***************************************************************************)
(* list_unread_voicemails called alone, the provider answering each page   *)
(* request with any records and any totalPages.                            *)
(***************************************************************************)
\* Records of one page response, by id.
PageContents == {<<>>, <<1>>, <<2, 1>>}
PageResponses == [ids : PageContents, totalPages : 0 .. MaxTotalPages]

\* One pass of the while loop.
ListPage ==
    /\ pc = "list"
    /\ \E o \in TokenOutcomes(token, token_exp, now) : RcOk("list", o)
    /\ \E r \in PageResponses :
         LET total_pages == TotalPagesOr1(r.totalPages)
         IN  /\ pageLog' = Append(pageLog, r)
             /\ records' = records \o [k \in 1 .. Len(r.ids) |-> Entry(r.ids[k], TRUE)]
             /\ IF LastPage(page, total_pages, MAX_PAGES)
                THEN pc' = "listed" /\ page' = page
                ELSE pc' = pc /\ page' = page + 1
    /\ UNCHANGED <<config, vm, now, partialBudget, idx, full_ct, tries, uri,
                   transcription, cycLog, failed, attLog, notified, readCount,
                   tokEv, prev>>

\* The next call: all_records = [], page = 1.
ListCall ==
    /\ pc \in {"listed", "sleep"}
    /\ pc' = "list"
    /\ page' = 1
    /\ records' = <<>>
    /\ pageLog' = <<>>
    /\ failed' = "none"
    /\ ev' = NoEv
    /\ UNCHANGED <<config, vm, env, cache, idx, full_ct, tries, uri, transcription,
                   cycLog, attLog, notified, readCount, tokEv, prev>>

NextList == ListPage \/ ListFail \/ ListCall

InitList == InitWith(ListConfigs, 1, 0)

ListSpec == InitList /\ [][NextList]_vars

RECURSIVE PagesConcat(_)
PagesConcat(log) ==
    IF log = <<>> THEN <<>>
    ELSE PagesConcat(SubSeq(log, 1, Len(log) - 1)) \o log[Len(log)].ids

\* totalPages as reported on page p of the call, missing or zero read as 1.
Reported(p) == IF pageLog[p].totalPages = 0 THEN 1 ELSE pageLog[p].totalPages

\* C3 (amended): one call of listUnread requests pages 1, 2, ... in order
\* and stops after the first page p whose own response reports totalPages
\* <= p (missing or zero read as 1), or after page MAX_PAGES; it returns the
\* concatenation of the records of exactly the pages it requested. When all
\* responses report the same totalPages T, these are pages 1..T for T <=
\* MAX_PAGES and pages 1..MAX_PAGES for T > MAX_PAGES.
C3_ListPages ==
    /\ pc = "list" => Len(pageLog) = page - 1 /\ page <= MAX_PAGES
    /\ pc = "listed" =>
         LET n == Len(pageLog)
         IN  /\ n \in 1 .. MAX_PAGES
             /\ \A p \in 1 .. n - 1 : p < Reported(p)
             /\ n < MAX_PAGES => n >= Reported(n)
             /\ [k \in 1 .. Len(records) |-> records[k].id] = PagesConcat(pageLog)
             /\ (\A p \in 1 .. n : Reported(p) = Reported(1))
                   => n = Min(Reported(1), MAX_PAGES)

\* A call stopped by a page that reports fewer pages than the page before.
C3_Witness ==
    /\ pc = "listed"
    /\ MAX_PAGES = 3
    /\ Len(pageLog) = 2
    /\ pageLog[1].totalPages = 3
    /\ pageLog[2].totalPages = 0
    /\ Len(records) = 3

\* C3 as stated: the call returns pages 1..totalPages, or 1..MAX_PAGES when
\* totalPages > MAX_PAGES, for the totalPages of at least one of the
\* responses it received.
C3_Original ==
    pc = "listed" =>
       \E p \in 1 .. Len(pageLog) : Len(pageLog) = Min(Reported(p), MAX_PAGES)

\* C11: every token get_access_token hands out, cached or freshly exchanged,
\* is handed out at a time before its recorded expiry minus 60 seconds.
C11_HandedOutBeforeMargin ==
    tokEv.src \in {"cache", "exchange"} => now < token_exp - 60

\* C12: when resolve returns None after its 6 attempts, the cycle goes on to
\* notify for that record (it does not abort and the store is untouched),
\* the notification carries the placeholder text, a successful notification
\* is followed by markRead of the same record, and a successful markRead
\* makes the record Read.
C12_AbsentStillNotified ==
    [][ /\ (pc = "rsleep" /\ tries = 6 /\ pc' # "rsleep") =>
              /\ pc' = "notify"
              /\ ~transcription'.some
              /\ failed' = "none"
              /\ idx' = idx /\ records' = records /\ vm' = vm
        /\ (pc = "notify" /\ ~transcription.some /\ pc' # "notify") =>
              /\ ev'.call = "notify"
              /\ ev'.text = <<"(", ")">>
              /\ ev'.ok =>
                    /\ pc' = "mark"
                    /\ idx' = idx /\ records' = records
                    /\ notified'[msg.id] >= 1
        /\ (pc = "mark" /\ ~transcription.some /\ ev'.call = "markRead" /\ ev'.ok) =>
              vm'[msg.id] = "Read"
      ]_vars

\* The placeholder notification of a record without transcription was sent.
C12_Witness ==
    /\ pc = "mark"
    /\ ~transcription.some
    /\ tries = Retries
    /\ \A k \in 1 .. Retries : ~attLog[k]
    /\ ev.call = "notify" /\ ev.ok
    /\ ev.text = Placeholder

(***************************************************************************)
(* discord_post called alone, with any transcription argument.             *)
(***************************************************************************)
\* Lengths of the texts tried: short ones, those around the field limit and
\* the longest.
FieldLengths ==
    (0 .. 3) \cup ((FieldLimit - 2) .. (FieldLimit + 2)) \cup {MaxLen}
\* A text of n letters, starting with c, between lead and trail blanks.
Letters(n, c) == [k \in 1 .. n |-> IF k % 2 = 1 THEN c ELSE "b"]
Blanks(n) == [k \in 1 .. n |-> " "]
FieldInputs ==
    {NoneT} \cup
    {Some(Blanks(lead) \o Letters(n, c) \o Blanks(trail)) :
        n \in FieldLengths, c \in {"a", "c"}, lead \in 0 .. 1, trail \in 0 .. 1}

\* discord_post(..., transcription): the payload is built and posted; the
\* webhook accepts it or (while the failure budget lasts) refuses it.
DiscordPost ==
    /\ pc \in {"list", "posted"}
    /\ pc' = "posted"
    /\ \E t \in FieldInputs, ok \in BOOLEAN :
         /\ ~ok => failBudget > 0
         /\ failBudget' = IF ok THEN failBudget ELSE failBudget - 1
         /\ transcription' = t
         /\ ev' = [Ev("notify", ok) EXCEPT !.text = TranscriptionField(t)]
    /\ UNCHANGED <<config, vm, now, partialBudget, cache, page, records, idx, full_ct,
                   tries, uri, cycLog, failed, attLog, notified, readCount, probe, prev>>

InitField ==
    /\ InitWith({<<2, 2>>}, 1, 0)
    /\ vm = [i \in Ids |-> "none"]
    /\ date_from = CreationTime(1)
    /\ descending

FieldSpec == InitField /\ [][DiscordPost]_vars

\* C13 (amended): the transcription field of a payload has at most 1024
\* characters; for a transcription whose trimmed text has length L >= 1 it
\* is the first min(L, 1024) characters of that text (2000 give 1024); for a
\* missing or empty transcription it is the placeholder text.
C13_FieldLength ==
    pc = "posted" =>
        /\ Len(ev.text) <= 1024
        /\ IF transcription.some /\ transcription.text # <<>>
           THEN LET s == Strip(transcription.text)
                    n == IF Len(s) < 1024 THEN Len(s) ELSE 1024
                IN  /\ Len(ev.text) = n
                    /\ \A k \in 1 .. n : ev.text[k] = s[k]
           ELSE ev.text = <<"(", ")">>

\* A text of the greatest length was cut to the limit.
C13_Witness ==
    /\ pc = "posted"
    /\ transcription.some
    /\ Len(Strip(transcription.text)) = MaxLen
    /\ Len(ev.text) = FieldLimit
    /\ ev.text[FieldLimit] = "b"

\* C13 as stated: for every transcription, of trimmed length L, the field
\* has length min(L, 1024) and is the first min(L, 1024) characters of it.
C13_Original ==
    (pc = "posted" /\ transcription.some) =>
        LET s == Strip(transcription.text)
            n == IF Len(s) < 1024 THEN Len(s) ELSE 1024
        IN  /\ Len(ev.text) = n
            /\ \A k \in 1 .. n : ev.text[k] = s[k]

\* C14: notifications go out in the order the voicemails were left: of two
\* voicemails of the lookback window, the one left later is not notified
\* while the one left earlier has not been (every response being complete
\* and no remote call having failed).
C14_LeftOrder ==
    (failBudget = MaxFailures /\ partialBudget = MaxPartial) =>
        \A a, b \in Ids :
            (/\ vm[a] # "none" /\ vm[b] # "none"
             /\ date_from <= CreationTime(a)
             /\ CreationTime(a) < CreationTime(b)
             /\ notified[b] >= 1)
                => notified[a] >= 1

\* C15: a record that is Unread inside the lookback window is eventually
\* notified and marked Read, also when a cycle left it out because of the
\* page cap or an error. Arrivals and failures being finitely many and Read
\* being final, this is: from some point on no record of the window is
\* Unread, and a record that is Read has been notified.
C15_EventuallyProcessed ==
    /\ <>[](\A i \in Ids : date_from <= CreationTime(i) => vm[i] # "Unread")
    /\ [](\A i \in Ids : vm[i] = "Read" => notified[i] >= 1)

\* With more unread records than MAX_PAGES * PER_PAGE and the newest listed
\* first, the oldest record was left out by the cap and processed, alone, by
\* a later cycle; no call has failed.
C15_Witness ==
    /\ pc = "sleep"
    /\ descending
    /\ PER_PAGE * MAX_PAGES < NumVm
    /\ failBudget = 1
    /\ failed = "none"
    /\ \A i \in Ids : vm[i] = "Read" /\ notified[i] >= 1
    /\ ListedIds = {1}

\* C16: in resolve every sleep is followed by another getMessage attempt (a
\* sleep happens only between two attempts), so a resolve that uses up its
\* attempts has slept one time less than it has called getMessage.
C16_SleepOnlyBetweenAttempts ==
    [][(pc = "rsleep" /\ pc' # "rsleep") => pc' = "resolve"]_vars

\* C17: date_from, the boundary every list request carries, never changes
\* after start-up: no step of the loop (a call that succeeds or fails, a
\* sleep, a markRead) and no arrival changes it.
C17_DateFromFixed ==
    [][date_from' = date_from]_vars

\* A later cycle has listed again after an earlier one marked a record Read
\* and another failed.
C17_Witness ==
    /\ pc = "detail"
    /\ idx = 1
    /\ failBudget < MaxFailures
    /\ \E i \in Ids : vm[i] = "Read"
    /\ date_from = CreationTime(1) + 1

\* C18: while the loop works on the record at place idx of the cycle's
\* sorted list, every record before it has been notified and then marked
\* Read, successfully and in this cycle, and nothing else has been done; a
\* cycle that failed has touched no record behind the one it failed on, so
\* a cycle failing on its first record has notified none of the others.
C18_HeadOfLine ==
    /\ pc \in {"detail", "resolve", "rsleep", "rawtext", "notify", "mark"} =>
          /\ idx \in 1 .. Len(records)
          /\ Len(cycLog) = 2 * (idx - 1) + (IF pc = "mark" THEN 1 ELSE 0)
          /\ \A k \in 1 .. idx - 1 :
                /\ cycLog[2 * k - 1].op = "notify"
                /\ cycLog[2 * k - 1].id = records[k].id
                /\ cycLog[2 * k - 1].ok
                /\ cycLog[2 * k].op = "markRead"
                /\ cycLog[2 * k].id = records[k].id
                /\ cycLog[2 * k].ok
                /\ vm[records[k].id] = "Read"
    /\ (pc = "sleep" /\ failed # "none" /\ idx >= 1) =>
          /\ Len(cycLog) <= 2 * idx
          /\ \A j \in 1 .. Len(cycLog) : cycLog[j].id = records[(j + 1) \div 2].id
          /\ \A k \in 1 .. idx - 1 : cycLog[2 * k - 1].ok /\ cycLog[2 * k].ok

\* The loop has reached the third record of a cycle.
C18_Witness ==
    /\ pc = "notify"
    /\ idx = 3
    /\ Len(cycLog) = 4
    /\ NoDuplicates

\* C19: a getMessage attempt or a fetchRaw that fails inside resolve ends
\* the cycle with an error instead of yielding None: the loop goes to its
\* sleep with the failure recorded, nothing is notified or marked for the
\* record (the cycle's log and the store stay as they were), and no further
\* call, so none of the attempts left, is made in that cycle.
C19_ResolveFailurePropagates ==
    [][ /\ (pc \in {"resolve", "rawtext"} /\ ev'.call # "none" /\ ~ev'.ok) =>
              /\ ev'.call = (IF pc = "resolve" THEN "getMessage" ELSE "fetchRaw")
              /\ pc' = "sleep"
              /\ failed' \in {ev'.call, "token"}
              /\ cycLog' = cycLog
              /\ vm' = vm
              /\ notified' = notified
              /\ idx' = idx /\ records' = records
        /\ (pc = "sleep" /\ failed \in {"getMessage", "fetchRaw"}) =>
              /\ ev'.call = "none"
              /\ pc' = "list"
              /\ notified' = notified
      ]_vars

\* The fetch of the transcription text failed for the first record of a
\* cycle, which is left Unread and not notified.
C19_Witness ==
    /\ pc = "sleep"
    /\ failed = "fetchRaw"
    /\ idx = 1
    /\ cycLog = <<>>
    /\ vm[records[1].id] = "Unread"
    /\ notified[records[1].id] = 0

=============================================================================
